---- MODULE Spec2Model ----
(***************************************************************************)
(* SERCOM DMA transfers (hal/src/sercom/dma.rs).                           *)
(*                                                                         *)
(* One foreground context calls the I2C and UART DMA entry points; the     *)
(* DMA controller and the interrupt handler run asynchronously.  Each      *)
(* entry point is followed statement by statement (call.pc), so that the   *)
(* order of its hardware writes is observable by the hardware actions.     *)
(* Rust move semantics are modelled by ownership sets: a value passed by   *)
(* value leaves the caller's hands.                                        *)
(***************************************************************************)
EXTENDS Integers, Sequences, FiniteSets, TLC

\* ---------------------------------------------------------------- bounds
NumChannels == 2      \* DMA channels of the controller
MaxTokens   == 1      \* I2cBusReady tokens the caller keeps at once
LenOver     == 1      \* buffer lengths reach I2cMaxLen + LenOver
MaxBeats    == 3      \* slices of 0..MaxBeats beats
MaxStart    == 2      \* slices start at beat 1..MaxStart of the address space

\* ------------------------------------------------------ program constants
I2cMaxLen == 255      \* assert!(len > 0 && len <= 255)
U8Modulus == 256      \* `len as u8`

Chan   == 0 .. (NumChannels - 1)
Buf    == {"buf_a", "buf_b"}   \* the caller's 'static memory buffers
Periph == {"i2c", "uart"}
AllPeriph == Periph \cup {"spi"}
Families == {"d11", "d21", "d5x"}   \* hal_cfg: sercom0-/dmac- d11, d21, d5x
Addr   == {8, 119}              \* I2C addresses the caller uses (u8)
\* Buffer lengths (usize): the short ones and those around the I2C limit.
Lens   == (0 .. 1) \cup ((I2cMaxLen - 1) .. (I2cMaxLen + LenOver))

BeatWidths == {1, 2, 4}         \* size_of::<T>() for T: Beat (u8, u16, u32)

I2cFns  == {"i2c_receive_with_dma", "i2c_send_with_dma"}
UartFns == {"uart_receive_with_dma", "uart_send_with_dma"}
SpiFns  == {"spi_send_with_dma", "spi_receive_with_dma"}
EngineFns == {"read_dma", "read_dma_linked", "write_dma", "write_dma_linked"}

VARIABLES
    ready,     \* channel handles of typestate Ready in the caller's hands
    owned,     \* peripheral instances in the caller's hands
    bufs,      \* memory buffers in the caller's hands
    tokens,    \* I2cBusReady values the caller got from init_dma_transfer
    ret,       \* result of the last init_dma_transfer: "none" | "Ok" | "Err"
    busIdle,   \* the I2C bus state that check_bus_status reads
    call,      \* the entry point the foreground is in, and its position
    dmac,      \* per channel: interrupt enable, flag, channel state, trigger
    i2c,       \* the I2C transaction the peripheral was told to start
    xfer,      \* per peripheral: the Transfer that owns it, if any
    chip,      \* the chip family the crate is built for
    ssb,       \* SharedSliceBuffer: the pointer range
    slice,     \* the slice the SharedSliceBuffer was made from
    obs,       \* last value a Buffer method returned
    reg        \* a fixed-register buffer: SercomPtr, or I2c, Uart, Spi as Buffer

mainVars  == <<ready, owned, bufs, tokens, ret, busIdle, call, dmac, i2c, xfer, chip>>
sliceVars == <<ssb, slice, obs, reg>>
vars      == <<ready, owned, bufs, tokens, ret, busIdle, call, dmac, i2c, xfer,
               chip, ssb, slice, obs>>

NoCall == [fn |-> "none", pc |-> "idle", address |-> 0, len |-> 0, buf |-> "none",
           chan |-> 0, tok |-> "none", next |-> FALSE]
NoXfer == [state |-> "none", chan |-> 0, src |-> "none", dst |-> "none",
           buf |-> "none", len |-> 0, waker |-> <<>>]
ChanOff == [tcmpl |-> FALSE, intflag |-> FALSE, state |-> "off",
            trig |-> "none", periph |-> "none", act |-> "none",
            src |-> "none", dst |-> "none", link |-> FALSE, leg |-> 0,
            via |-> "none"]
NoCmd  == [cmd |-> "none", address |-> 0, len |-> 0]
NoSsb  == [start |-> 0, end |-> 0]
NoSlice == [start |-> 0, n |-> 0, width |-> 1]
NoObs  == [op |-> "none", val |-> 0, flag |-> FALSE]
NoReg  == [kind |-> "none", sercom |-> "none", ptr |-> 0, width |-> 1]

\* ----------------------------------------------------- external: dmac, i2c

\* Faulty variant: InterruptFlags::new() without with_tcmpl(true).
EnableInterrupts_NoTcmpl(c) ==
    dmac' = dmac

\* Channel::enable_interrupts(InterruptFlags::new().with_tcmpl(true))
EnableInterrupts(c) ==
    dmac' = [dmac EXCEPT ![c].tcmpl = TRUE]

\* An enabled channel interrupt whose flag is raised preempts the foreground.
IrqPending(c) == dmac[c].tcmpl /\ dmac[c].intflag

Foreground == \A c \in Chan : ~IrqPending(c)

\* Transfer::new_unchecked(chan, src, dst, false).with_waker(w).begin(trig, act):
\* commits the descriptor, enables the channel (Ready -> Busy) and returns the
\* Transfer that owns channel, peripheral, buffer and the one-shot waker.
Begin(p, c, src, dst, b, len, trig, act) ==
    /\ dmac' = [dmac EXCEPT ![c] = [tcmpl |-> dmac[c].tcmpl, intflag |-> FALSE,
                                    state |-> "armed", trig |-> trig,
                                    periph |-> p, act |-> act, src |-> src,
                                    dst |-> dst, link |-> FALSE, leg |-> 1,
                                    via |-> "Transfer::begin"]]
    /\ xfer' = [xfer EXCEPT ![p] = [state |-> "Busy", chan |-> c, src |-> src,
                                    dst |-> dst, buf |-> b, len |-> len,
                                    waker |-> <<>>]]

\* #[hal_cfg("sercom0-d5x")] Burst; #[hal_cfg(any("sercom0-d11", "sercom0-d21"))]
\* Beat: the trigger action every entry point selects.
SercomTriggerAction == IF chip = "d5x" THEN "Burst" ELSE "Beat"

\* I2c::check_bus_status(): Ok when the bus is idle, an error otherwise.
CheckBusStatus == busIdle

\* I2c::start_dma_read / start_dma_write(address, len): programs address and
\* length and issues the start condition.
StartDma(cmd, address, len8) ==
    /\ i2c' = [cmd |-> cmd, address |-> address, len |-> len8]
    /\ busIdle' = FALSE

\* ------------------------------------------------------------ I2C, caller

\* pub struct I2cBusReady;  a public unit struct: a caller passes a token it
\* got from init_dma_transfer, or writes the struct expression itself.
I2cBusReady == (IF tokens > 0 THEN {"checked"} ELSE {}) \cup {"literal"}

TakeToken(tok) == IF tok = "checked" THEN tokens - 1 ELSE tokens

\* Faulty variant: the result of the bus check is dropped.
init_dma_transfer_Unchecked ==
    /\ call.pc = "idle" /\ Foreground
    /\ "i2c" \in owned
    /\ tokens < MaxTokens
    /\ tokens' = tokens + 1 /\ ret' = "Ok"
    /\ UNCHANGED <<ready, owned, bufs, busIdle, call, dmac, i2c, xfer, sliceVars, chip>>

init_dma_transfer ==
    /\ call.pc = "idle" /\ Foreground
    /\ "i2c" \in owned
    /\ tokens < MaxTokens
    /\ IF CheckBusStatus
          THEN tokens' = tokens + 1 /\ ret' = "Ok"
          ELSE tokens' = tokens /\ ret' = "Err"
    /\ UNCHANGED <<ready, owned, bufs, busIdle, call, dmac, i2c, xfer, sliceVars, chip>>

\* Faulty variant: the interrupt is enabled before the length is asserted.
I2cEnter_EnableFirst(fn) ==
    /\ call.pc = "idle" /\ Foreground
    /\ "i2c" \in owned
    /\ \E address \in Addr, tok \in I2cBusReady, b \in bufs, len \in Lens, c \in ready :
          /\ owned' = owned \ {"i2c"}
          /\ tokens' = TakeToken(tok)
          /\ bufs' = bufs \ {b}
          /\ ready' = ready \ {c}
          /\ EnableInterrupts(c)
          /\ call' = [fn |-> fn,
                      pc |-> IF len > 0 /\ len <= I2cMaxLen
                                THEN "begin" ELSE "panicked",
                      address |-> address, len |-> len, buf |-> b, chan |-> c,
                      tok |-> tok, next |-> FALSE]
    /\ ret' = "none"
    /\ UNCHANGED <<busIdle, i2c, xfer, sliceVars, chip>>

\* Faulty variant: the assertion is `len > 0 && len < 255`.
I2cEnter_OffByOne(fn) ==
    /\ call.pc = "idle" /\ Foreground
    /\ "i2c" \in owned
    /\ \E address \in Addr, tok \in I2cBusReady, b \in bufs, len \in Lens, c \in ready :
          /\ owned' = owned \ {"i2c"}
          /\ tokens' = TakeToken(tok)
          /\ bufs' = bufs \ {b}
          /\ ready' = ready \ {c}
          /\ call' = [fn |-> fn,
                      pc |-> IF len > 0 /\ len < I2cMaxLen
                                THEN "enable_interrupts" ELSE "panicked",
                      address |-> address, len |-> len, buf |-> b, chan |-> c,
                      tok |-> tok, next |-> FALSE]
    /\ ret' = "none"
    /\ UNCHANGED <<busIdle, dmac, i2c, xfer, sliceVars, chip>>

\* Faulty variant: `&mut self` instead of `self`: the caller keeps the peripheral.
I2cEnter_KeepsSelf(fn) ==
    /\ call.pc = "idle" /\ Foreground
    /\ "i2c" \in owned
    /\ \E address \in Addr, tok \in I2cBusReady, b \in bufs, len \in Lens, c \in ready :
          /\ owned' = owned
          /\ tokens' = TakeToken(tok)
          /\ bufs' = bufs \ {b}
          /\ ready' = ready \ {c}
          /\ call' = [fn |-> fn,
                      pc |-> IF len > 0 /\ len <= I2cMaxLen
                                THEN "enable_interrupts" ELSE "panicked",
                      address |-> address, len |-> len, buf |-> b, chan |-> c,
                      tok |-> tok, next |-> FALSE]
    /\ ret' = "none"
    /\ UNCHANGED <<busIdle, dmac, i2c, xfer, sliceVars, chip>>

\* Entering an I2C entry point: the arguments move into the call, then
\* `let len = buf.buffer_len(); assert!(len > 0 && len <= 255);`
\* Faulty variant: only the lower limit of the length is asserted.
I2cEnter_NoUpperLimit(fn) ==
    /\ call.pc = "idle" /\ Foreground
    /\ "i2c" \in owned
    /\ \E address \in Addr, tok \in I2cBusReady, b \in bufs, len \in Lens, c \in ready :
          /\ owned' = owned \ {"i2c"}
          /\ tokens' = TakeToken(tok)
          /\ bufs' = bufs \ {b}
          /\ ready' = ready \ {c}
          /\ call' = [fn |-> fn,
                      pc |-> IF len > 0 THEN "enable_interrupts" ELSE "panicked",
                      address |-> address, len |-> len, buf |-> b, chan |-> c,
                      tok |-> tok, next |-> FALSE]
    /\ ret' = "none"
    /\ UNCHANGED <<busIdle, dmac, i2c, xfer, sliceVars, chip>>

I2cEnter(fn) ==
    /\ call.pc = "idle" /\ Foreground
    /\ "i2c" \in owned
    /\ \E address \in Addr, tok \in I2cBusReady, b \in bufs, len \in Lens, c \in ready :
          /\ owned' = owned \ {"i2c"}
          /\ tokens' = TakeToken(tok)
          /\ bufs' = bufs \ {b}
          /\ ready' = ready \ {c}
          /\ call' = [fn |-> fn,
                      pc |-> IF len > 0 /\ len <= I2cMaxLen
                                THEN "enable_interrupts" ELSE "panicked",
                      address |-> address, len |-> len, buf |-> b, chan |-> c,
                      tok |-> tok, next |-> FALSE]
    /\ ret' = "none"
    /\ UNCHANGED <<busIdle, dmac, i2c, xfer, sliceVars, chip>>

I2cEnableInterrupts(fn) ==
    /\ call.fn = fn /\ call.pc = "enable_interrupts" /\ Foreground
    /\ EnableInterrupts(call.chan)
    /\ call' = [call EXCEPT !.pc = "begin"]
    /\ UNCHANGED <<ready, owned, bufs, tokens, ret, busIdle, i2c, xfer, sliceVars, chip>>

\* Faulty variant: the read is begun on the TX trigger.
i2c_receive_with_dma_TxTrigger ==
    \/ I2cEnter("i2c_receive_with_dma")
    \/ I2cEnableInterrupts("i2c_receive_with_dma")
    \/ /\ call.fn = "i2c_receive_with_dma" /\ call.pc = "begin" /\ Foreground
       /\ Begin("i2c", call.chan, "periph", "buf", call.buf, call.len, "TX",
             SercomTriggerAction)
       /\ call' = [call EXCEPT !.pc = "start"]
       /\ UNCHANGED <<ready, owned, bufs, tokens, ret, busIdle, i2c, sliceVars, chip>>
    \/ /\ call.fn = "i2c_receive_with_dma" /\ call.pc = "start" /\ Foreground
       /\ StartDma("read", call.address, call.len % U8Modulus)
       /\ call' = NoCall
       /\ UNCHANGED <<ready, owned, bufs, tokens, ret, dmac, xfer, sliceVars, chip>>

i2c_receive_with_dma ==
    \/ I2cEnter("i2c_receive_with_dma")
    \/ I2cEnableInterrupts("i2c_receive_with_dma")
    \/ /\ call.fn = "i2c_receive_with_dma" /\ call.pc = "begin" /\ Foreground
       /\ Begin("i2c", call.chan, "periph", "buf", call.buf, call.len, "RX",
             SercomTriggerAction)
       /\ call' = [call EXCEPT !.pc = "start"]
       /\ UNCHANGED <<ready, owned, bufs, tokens, ret, busIdle, i2c, sliceVars, chip>>
    \/ /\ call.fn = "i2c_receive_with_dma" /\ call.pc = "start" /\ Foreground
       /\ StartDma("read", call.address, call.len % U8Modulus)
       /\ call' = NoCall
       /\ UNCHANGED <<ready, owned, bufs, tokens, ret, dmac, xfer, sliceVars, chip>>

\* Faulty variant: start_dma_write is issued before the transfer is begun.
i2c_send_with_dma_StartFirst ==
    \/ I2cEnter("i2c_send_with_dma")
    \/ I2cEnableInterrupts("i2c_send_with_dma")
    \/ /\ call.fn = "i2c_send_with_dma" /\ call.pc = "begin" /\ Foreground
       /\ StartDma("write", call.address, call.len % U8Modulus)
       /\ call' = [call EXCEPT !.pc = "start"]
       /\ UNCHANGED <<ready, owned, bufs, tokens, ret, dmac, xfer, sliceVars, chip>>
    \/ /\ call.fn = "i2c_send_with_dma" /\ call.pc = "start" /\ Foreground
       /\ Begin("i2c", call.chan, "buf", "periph", call.buf, call.len, "TX",
             SercomTriggerAction)
       /\ call' = NoCall
       /\ UNCHANGED <<ready, owned, bufs, tokens, ret, busIdle, i2c, sliceVars, chip>>

i2c_send_with_dma ==
    \/ I2cEnter("i2c_send_with_dma")
    \/ I2cEnableInterrupts("i2c_send_with_dma")
    \/ /\ call.fn = "i2c_send_with_dma" /\ call.pc = "begin" /\ Foreground
       /\ Begin("i2c", call.chan, "buf", "periph", call.buf, call.len, "TX",
             SercomTriggerAction)
       /\ call' = [call EXCEPT !.pc = "start"]
       /\ UNCHANGED <<ready, owned, bufs, tokens, ret, busIdle, i2c, sliceVars, chip>>
    \/ /\ call.fn = "i2c_send_with_dma" /\ call.pc = "start" /\ Foreground
       /\ StartDma("write", call.address, call.len % U8Modulus)
       /\ call' = NoCall
       /\ UNCHANGED <<ready, owned, bufs, tokens, ret, dmac, xfer, sliceVars, chip>>

\* ----------------------------------------------------------- UART, caller

\* Faulty variant: `&mut Ch` instead of `Ch`: the caller keeps the Ready handle.
UartEnter_KeepsChannel(fn) ==
    /\ call.pc = "idle" /\ Foreground
    /\ "uart" \in owned
    /\ \E b \in bufs, len \in Lens, c \in ready :
          /\ owned' = owned \ {"uart"}
          /\ bufs' = bufs \ {b}
          /\ ready' = ready
          /\ call' = [fn |-> fn, pc |-> "enable_interrupts", address |-> 0,
                      len |-> len, buf |-> b, chan |-> c, tok |-> "none",
                      next |-> FALSE]
    /\ ret' = "none"
    /\ UNCHANGED <<tokens, busIdle, dmac, i2c, xfer, sliceVars, chip>>

\* Faulty variant: the length assertion of the I2C entry points.
UartEnter_AssertsLength(fn) ==
    /\ call.pc = "idle" /\ Foreground
    /\ "uart" \in owned
    /\ \E b \in bufs, len \in Lens, c \in ready :
          /\ owned' = owned \ {"uart"}
          /\ bufs' = bufs \ {b}
          /\ ready' = ready \ {c}
          /\ call' = [fn |-> fn,
                      pc |-> IF len > 0 /\ len <= I2cMaxLen
                                THEN "enable_interrupts" ELSE "panicked",
                      address |-> 0, len |-> len, buf |-> b, chan |-> c,
                      tok |-> "none", next |-> FALSE]
    /\ ret' = "none"
    /\ UNCHANGED <<tokens, busIdle, dmac, i2c, xfer, sliceVars, chip>>

UartEnter(fn) ==
    /\ call.pc = "idle" /\ Foreground
    /\ "uart" \in owned
    /\ \E b \in bufs, len \in Lens, c \in ready :
          /\ owned' = owned \ {"uart"}
          /\ bufs' = bufs \ {b}
          /\ ready' = ready \ {c}
          /\ call' = [fn |-> fn, pc |-> "enable_interrupts", address |-> 0,
                      len |-> len, buf |-> b, chan |-> c, tok |-> "none",
                      next |-> FALSE]
    /\ ret' = "none"
    /\ UNCHANGED <<tokens, busIdle, dmac, i2c, xfer, sliceVars, chip>>

UartEnableInterrupts(fn) ==
    /\ call.fn = fn /\ call.pc = "enable_interrupts" /\ Foreground
    /\ EnableInterrupts(call.chan)
    /\ call' = [call EXCEPT !.pc = "begin"]
    /\ UNCHANGED <<ready, owned, bufs, tokens, ret, busIdle, i2c, xfer, sliceVars, chip>>

uart_receive_with_dma ==
    \/ UartEnter("uart_receive_with_dma")
    \/ UartEnableInterrupts("uart_receive_with_dma")
    \/ /\ call.fn = "uart_receive_with_dma" /\ call.pc = "begin" /\ Foreground
       /\ Begin("uart", call.chan, "periph", "buf", call.buf, call.len, "RX",
             SercomTriggerAction)
       /\ call' = NoCall
       /\ UNCHANGED <<ready, owned, bufs, tokens, ret, busIdle, i2c, sliceVars, chip>>

uart_send_with_dma ==
    \/ UartEnter("uart_send_with_dma")
    \/ UartEnableInterrupts("uart_send_with_dma")
    \/ /\ call.fn = "uart_send_with_dma" /\ call.pc = "begin" /\ Foreground
       /\ Begin("uart", call.chan, "buf", "periph", call.buf, call.len, "TX",
             SercomTriggerAction)
       /\ call' = NoCall
       /\ UNCHANGED <<ready, owned, bufs, tokens, ret, busIdle, i2c, sliceVars, chip>>

\* ------------------------------------------------------------ SPI, caller

SpiEnter(fn) ==
    /\ call.pc = "idle" /\ Foreground
    /\ "spi" \in owned
    /\ \E b \in bufs, len \in Lens, c \in ready :
          /\ owned' = owned \ {"spi"}
          /\ bufs' = bufs \ {b}
          /\ ready' = ready \ {c}
          /\ call' = [fn |-> fn, pc |-> "enable_interrupts", address |-> 0,
                      len |-> len, buf |-> b, chan |-> c, tok |-> "none",
                      next |-> FALSE]
    /\ ret' = "none"
    /\ UNCHANGED <<tokens, busIdle, dmac, i2c, xfer, sliceVars, chip>>

\* Faulty variant: the completion interrupt is not enabled.
SpiEnableInterrupts_Skipped(fn) ==
    /\ call.fn = fn /\ call.pc = "enable_interrupts" /\ Foreground
    /\ call' = [call EXCEPT !.pc = "begin"]
    /\ UNCHANGED <<ready, owned, bufs, tokens, ret, busIdle, dmac, i2c, xfer, sliceVars, chip>>

SpiEnableInterrupts(fn) ==
    /\ call.fn = fn /\ call.pc = "enable_interrupts" /\ Foreground
    /\ EnableInterrupts(call.chan)
    /\ call' = [call EXCEPT !.pc = "begin"]
    /\ UNCHANGED <<ready, owned, bufs, tokens, ret, busIdle, i2c, xfer, sliceVars, chip>>

spi_send_with_dma ==
    \/ SpiEnter("spi_send_with_dma")
    \/ SpiEnableInterrupts("spi_send_with_dma")
    \/ /\ call.fn = "spi_send_with_dma" /\ call.pc = "begin" /\ Foreground
       /\ Begin("spi", call.chan, "buf", "periph", call.buf, call.len, "TX",
                SercomTriggerAction)
       /\ call' = NoCall
       /\ UNCHANGED <<ready, owned, bufs, tokens, ret, busIdle, i2c, sliceVars, chip>>

spi_receive_with_dma ==
    \/ SpiEnter("spi_receive_with_dma")
    \/ SpiEnableInterrupts("spi_receive_with_dma")
    \/ /\ call.fn = "spi_receive_with_dma" /\ call.pc = "begin" /\ Foreground
       /\ Begin("spi", call.chan, "periph", "buf", call.buf, call.len, "RX",
                SercomTriggerAction)
       /\ call' = NoCall
       /\ UNCHANGED <<ready, owned, bufs, tokens, ret, busIdle, i2c, sliceVars, chip>>

\* ------------------------------------------------------ low-level engine

\* Faulty variant: Beat on every chip family.
DmacTriggerAction_AlwaysBeat == "Beat"

\* #[hal_cfg("dmac-d5x")] Burst; #[hal_cfg(any("dmac-d11", "dmac-d21"))] Beat
DmacTriggerAction == IF chip = "d5x" THEN "Burst" ELSE "Beat"

\* Channel::transfer_unchecked(source, dest, trig_src, trig_act, linked): writes
\* one descriptor, linked to the next one if there is one, and enables the
\* channel; the handle stays Ready.
TransferUnchecked(c, src, dst, p, trig, act, next, fn) ==
    dmac' = [dmac EXCEPT ![c] = [tcmpl |-> dmac[c].tcmpl,
                                 intflag |-> dmac[c].intflag,
                                 state |-> "armed", trig |-> trig, periph |-> p,
                                 act |-> act, src |-> src, dst |-> dst,
                                 link |-> next, leg |-> 1, via |-> fn]]

\* The SERCOMs the engine is run on: those whose DMA trigger needs no start
\* command; the caller borrows the peripheral for its data register.
EngineSercoms == owned \cap {"uart", "spi"}

\* Faulty variant: the next descriptor is dropped.
read_dma_linked_DropsNext(fn, nexts) ==
    /\ call.pc = "idle" /\ Foreground
    /\ \E c \in ready, S \in EngineSercoms, b \in bufs, len \in Lens, next \in nexts :
          /\ TransferUnchecked(c, "sercom_ptr", "buf", S, "RX", DmacTriggerAction,
                               FALSE, "read_dma_linked")
          /\ call' = [fn |-> fn, pc |-> "in_flight", address |-> 0, len |-> len,
                      buf |-> b, chan |-> c, tok |-> "none", next |-> next]
    /\ ret' = "none"
    /\ UNCHANGED <<ready, owned, bufs, tokens, busIdle, i2c, xfer, sliceVars, chip>>

\* Faulty variant: the register adapter and the buffer change places.
write_dma_linked_Reversed(fn, nexts) ==
    /\ call.pc = "idle" /\ Foreground
    /\ \E c \in ready, S \in EngineSercoms, b \in bufs, len \in Lens, next \in nexts :
          /\ TransferUnchecked(c, "sercom_ptr", "buf", S, "TX", DmacTriggerAction,
                               next, "write_dma_linked")
          /\ call' = [fn |-> fn, pc |-> "in_flight", address |-> 0, len |-> len,
                      buf |-> b, chan |-> c, tok |-> "none", next |-> next]
    /\ ret' = "none"
    /\ UNCHANGED <<ready, owned, bufs, tokens, busIdle, i2c, xfer, sliceVars, chip>>

\* Faulty variant: `Ch` instead of `&mut Ch`: the channel is taken by value.
read_dma_linked_TakesChannel(fn, nexts) ==
    /\ call.pc = "idle" /\ Foreground
    /\ \E c \in ready, S \in EngineSercoms, b \in bufs, len \in Lens, next \in nexts :
          /\ TransferUnchecked(c, "sercom_ptr", "buf", S, "RX", DmacTriggerAction,
                               next, "read_dma_linked")
          /\ ready' = ready \ {c}
          /\ call' = [fn |-> fn, pc |-> "in_flight", address |-> 0, len |-> len,
                      buf |-> b, chan |-> c, tok |-> "none", next |-> next]
    /\ ret' = "none"
    /\ UNCHANGED <<owned, bufs, tokens, busIdle, i2c, xfer, sliceVars, chip>>

\* The callers of the engine keep its contract: the channel and the buffer
\* are borrowed, and nothing else is done with them until the transfer has
\* stopped or completed (call.pc = "in_flight").
read_dma_linked(fn, nexts) ==
    /\ call.pc = "idle" /\ Foreground
    /\ \E c \in ready, S \in EngineSercoms, b \in bufs, len \in Lens, next \in nexts :
          /\ TransferUnchecked(c, "sercom_ptr", "buf", S, "RX", DmacTriggerAction,
                               next, "read_dma_linked")
          /\ call' = [fn |-> fn, pc |-> "in_flight", address |-> 0, len |-> len,
                      buf |-> b, chan |-> c, tok |-> "none", next |-> next]
    /\ ret' = "none"
    /\ UNCHANGED <<ready, owned, bufs, tokens, busIdle, i2c, xfer, sliceVars, chip>>

\* read_dma_linked::<_, _, S>(channel, sercom_ptr, buf, None)
read_dma == read_dma_linked("read_dma", {FALSE})

write_dma_linked(fn, nexts) ==
    /\ call.pc = "idle" /\ Foreground
    /\ \E c \in ready, S \in EngineSercoms, b \in bufs, len \in Lens, next \in nexts :
          /\ TransferUnchecked(c, "buf", "sercom_ptr", S, "TX", DmacTriggerAction,
                               next, "write_dma_linked")
          /\ call' = [fn |-> fn, pc |-> "in_flight", address |-> 0, len |-> len,
                      buf |-> b, chan |-> c, tok |-> "none", next |-> next]
    /\ ret' = "none"
    /\ UNCHANGED <<ready, owned, bufs, tokens, busIdle, i2c, xfer, sliceVars, chip>>

\* write_dma_linked::<_, _, S>(channel, sercom_ptr, buf, None)
write_dma == write_dma_linked("write_dma", {FALSE})

\* The caller of the engine sees the transfer stopped or completed and takes
\* back control of channel and buffer.
EngineDone ==
    /\ call.fn \in EngineFns /\ call.pc = "in_flight" /\ Foreground
    /\ dmac[call.chan].state \in {"done", "error"}
    /\ dmac' = [dmac EXCEPT ![call.chan] =
                  [ChanOff EXCEPT !.tcmpl = dmac[call.chan].tcmpl]]
    /\ call' = NoCall
    /\ UNCHANGED <<ready, owned, bufs, tokens, ret, busIdle, i2c, xfer, sliceVars, chip>>

\* --------------------------------------- hardware, interrupt, completion

\* The peripheral raises DMA triggers once it runs: the I2C only after its
\* start condition, the UART at any time.
Triggered(c) ==
    /\ dmac[c].state = "armed"
    /\ dmac[c].periph = "i2c" => i2c.cmd # "none"

I2cAfter(c) ==
    IF dmac[c].periph = "i2c"
       THEN i2c' = NoCmd /\ busIdle' = TRUE
       ELSE UNCHANGED <<i2c, busIdle>>

\* The controller finishes the first leg of a linked transfer and fetches
\* the next descriptor; no flag rises.
HwNextLeg(c) ==
    /\ Triggered(c)
    /\ dmac[c].link /\ dmac[c].leg = 1
    /\ dmac' = [dmac EXCEPT ![c].leg = 2]
    /\ UNCHANGED <<ready, owned, bufs, tokens, ret, busIdle, call, i2c, xfer, sliceVars, chip>>

\* The controller finishes the last leg: the transfer-complete flag rises.
HwComplete(c) ==
    /\ Triggered(c)
    /\ dmac[c].link => dmac[c].leg = 2
    /\ dmac' = [dmac EXCEPT ![c].state = "done", ![c].intflag = TRUE]
    /\ I2cAfter(c)
    /\ UNCHANGED <<ready, owned, bufs, tokens, ret, call, xfer, sliceVars, chip>>

\* The controller stops the leg on an error.
HwError(c) ==
    /\ Triggered(c)
    /\ dmac' = [dmac EXCEPT ![c].state = "error", ![c].intflag = TRUE]
    /\ I2cAfter(c)
    /\ UNCHANGED <<ready, owned, bufs, tokens, ret, call, xfer, sliceVars, chip>>

CallbackStatus(c) == IF dmac[c].state = "error" THEN "Error" ELSE "Success"

\* The completion interrupt: the handler resolves the callback of the
\* Transfer on that channel with the status, and clears the flag.
Interrupt(c) ==
    /\ IrqPending(c)
    /\ dmac' = [dmac EXCEPT ![c].intflag = FALSE]
    /\ xfer' = [p \in AllPeriph |->
                  IF xfer[p].state = "Busy" /\ xfer[p].chan = c
                     THEN [xfer[p] EXCEPT !.waker = Append(@, CallbackStatus(c))]
                     ELSE xfer[p]]
    /\ UNCHANGED <<ready, owned, bufs, tokens, ret, busIdle, call, i2c, sliceVars, chip>>

\* The caller consumes a Transfer once the hardware has finished: it gets
\* back the channel (Ready), the peripheral and the buffer.
TransferWait(p) ==
    /\ call.pc = "idle" /\ Foreground
    /\ xfer[p].state = "Busy"
    /\ dmac[xfer[p].chan].state \in {"done", "error"}
    /\ ready' = ready \cup {xfer[p].chan}
    /\ owned' = owned \cup {p}
    /\ bufs' = bufs \cup {xfer[p].buf}
    /\ dmac' = [dmac EXCEPT ![xfer[p].chan] = [ChanOff EXCEPT !.tcmpl = dmac[xfer[p].chan].tcmpl]]
    /\ xfer' = [xfer EXCEPT ![p] = NoXfer]
    /\ ret' = "none"
    /\ UNCHANGED <<tokens, busIdle, call, i2c, sliceVars, chip>>

\* Another bus master takes or releases the I2C bus.
BusChange ==
    /\ i2c.cmd = "none"
    /\ busIdle' = ~busIdle
    /\ UNCHANGED <<ready, owned, bufs, tokens, ret, call, dmac, i2c, xfer, sliceVars, chip>>

\* ------------------------------------------------------------------ Spec

\* boards/feather_m0: a SAMD21 board.
BoardFamily == "d21"

MainInit ==
    /\ ready = Chan
    /\ owned = Periph
    /\ bufs = Buf
    /\ tokens = 0
    /\ ret = "none"
    /\ busIdle \in BOOLEAN
    /\ call = NoCall
    /\ dmac = [c \in Chan |-> ChanOff]
    /\ i2c = NoCmd
    /\ xfer = [p \in AllPeriph |-> NoXfer]
    /\ chip = BoardFamily

SliceIdle == ssb = NoSsb /\ slice = NoSlice /\ obs = NoObs /\ reg = NoReg

Init == MainInit /\ SliceIdle

Next ==
    \/ init_dma_transfer
    \/ i2c_receive_with_dma
    \/ i2c_send_with_dma
    \/ uart_receive_with_dma
    \/ uart_send_with_dma
    \/ \E c \in Chan : HwComplete(c)
    \/ \E c \in Chan : HwError(c)
    \/ \E c \in Chan : Interrupt(c)
    \/ \E p \in Periph : TransferWait(p)
    \/ BusChange

Spec == Init /\ [][Next]_vars

\* Every SERCOM peripheral and the engine, in a build for any chip family.
SercomInit ==
    \* one DMA channel is handed to the SERCOM drivers
    /\ ready = {0}
    /\ owned = AllPeriph
    /\ bufs = Buf
    /\ tokens = 0
    /\ ret = "none"
    /\ busIdle \in BOOLEAN
    /\ call = NoCall
    /\ dmac = [c \in Chan |-> ChanOff]
    /\ i2c = NoCmd
    /\ xfer = [p \in AllPeriph |-> NoXfer]
    /\ chip \in Families
    /\ SliceIdle

SercomNext ==
    \/ i2c_receive_with_dma
    \/ i2c_send_with_dma
    \/ uart_receive_with_dma
    \/ uart_send_with_dma
    \/ spi_send_with_dma
    \/ spi_receive_with_dma
    \/ read_dma
    \/ read_dma_linked("read_dma_linked", BOOLEAN)
    \/ write_dma
    \/ write_dma_linked("write_dma_linked", BOOLEAN)
    \/ EngineDone
    \/ \E c \in Chan : HwNextLeg(c)
    \/ \E c \in Chan : HwComplete(c)
    \/ \E c \in Chan : HwError(c)
    \/ \E c \in Chan : Interrupt(c)
    \/ \E p \in AllPeriph : TransferWait(p)

SercomSpec == SercomInit /\ [][SercomNext]_vars

\* ---------------------------------------------------------------- claims

InI2cCall == call.fn \in I2cFns /\ call.pc # "idle"
LenOk(len) == len >= 1 /\ len <= I2cMaxLen
Armed(c) == dmac[c].tcmpl /\ dmac[c].state = "armed"
OnChannel(c) == {p \in Periph : xfer[p].state = "Busy" /\ xfer[p].chan = c}
Finished(c) == dmac[c].state \in {"done", "error"}
Consumed(p) == xfer[p].state = "Busy" /\ xfer'[p].state = "none"

\* C1: in every accepted I2C send_with_dma / receive_with_dma call the DMA arm
\* (transfer-complete interrupt enabled, descriptor committed, transfer begun)
\* precedes the I2C start condition: the start is only ever issued on a channel
\* that is already armed, and no state has a started transaction on a channel
\* that is not armed.
C1_ArmBeforeStart ==
    /\ [](i2c.cmd # "none" =>
            xfer["i2c"].state = "Busy" /\ Armed(xfer["i2c"].chan))
    /\ [][i2c'.cmd # "none" /\ i2c' # i2c =>
            /\ InI2cCall
            /\ xfer["i2c"].state = "Busy" /\ xfer["i2c"].chan = call.chan
            /\ Armed(call.chan)]_vars

C1_Witness ==
    /\ i2c.cmd = "write" /\ call.pc = "idle"
    /\ xfer["i2c"].state = "Busy" /\ Armed(xfer["i2c"].chan)

\* C2: an I2C send_with_dma / receive_with_dma call with a buffer length of 0
\* or above 255 terminates abnormally before touching the hardware: entering it
\* changes no channel, I2C or Transfer state, and from then on the channel it
\* was given keeps its interrupt enable, is never armed and backs no Transfer,
\* and no start condition is issued.
C2_BadLenPanicsBeforeHardware ==
    /\ [](call.pc = "panicked" =>
            /\ OnChannel(call.chan) = {}
            /\ dmac[call.chan].state = "off"
            /\ xfer["i2c"].state = "none"
            /\ i2c.cmd = "none")
    /\ [][/\ (call.pc = "idle" /\ call'.fn \in I2cFns /\ ~LenOk(call'.len)) =>
               (call'.pc = "panicked" /\ UNCHANGED <<dmac, i2c, xfer>>)
          /\ call.pc = "panicked" =>
               (call' = call /\ dmac'[call.chan] = dmac[call.chan])]_vars

C2_Witness ==
    /\ call.pc = "panicked" /\ call.fn = "i2c_send_with_dma" /\ call.len = 0
    /\ ~dmac[call.chan].tcmpl

\* C3: for every length 1..255 an I2C send_with_dma / receive_with_dma call on
\* a Ready channel does not terminate abnormally, and when it returns the I2C
\* Transfer holds that channel, Busy.
C3_GoodLenReturnsBusyTransfer ==
    /\ [](InI2cCall /\ LenOk(call.len) => call.pc # "panicked")
    /\ [][InI2cCall /\ call.pc # "panicked" /\ call'.pc = "idle" =>
            /\ LenOk(call.len)
            /\ xfer'["i2c"].state = "Busy"
            /\ xfer'["i2c"].chan = call.chan
            /\ xfer'["i2c"].len = call.len
            /\ dmac'[call.chan].state = "armed"
            /\ call.chan \notin ready']_vars

C3_Witness ==
    /\ call.pc = "idle"
    /\ xfer["i2c"].state = "Busy" /\ xfer["i2c"].len = I2cMaxLen
    /\ dmac[xfer["i2c"].chan].state = "armed"

\* C4: every I2C send_with_dma / receive_with_dma call is made with a token
\* that a successful init_dma_transfer returned.
C4_CallNeedsCheckedToken ==
    InI2cCall => call.tok = "checked"

\* C5: init_dma_transfer returns an error and no token when the bus is not
\* idle, a token when it is; either way it leaves the peripheral, the channels
\* and the buffers with the caller, unchanged, and does not panic.
C5_InitDmaTransfer ==
    [][ret' # "none" /\ (ret' # ret \/ tokens' # tokens) =>
          /\ busIdle => ret' = "Ok" /\ tokens' = tokens + 1
          /\ ~busIdle => ret' = "Err" /\ tokens' = tokens
          /\ "i2c" \in owned /\ "i2c" \in owned'
          /\ UNCHANGED <<ready, owned, bufs, busIdle, call, dmac, i2c, xfer>>]_vars

C5_Witness ==
    ret = "Err" /\ tokens = 0 /\ "i2c" \in owned /\ ~busIdle

\* C6: a channel backs at most one in-flight Transfer: while a Transfer or a
\* running entry point holds it, the caller has no Ready handle to it.
C6_OneTransferPerChannel ==
    \A c \in Chan :
        Cardinality(OnChannel(c))
          + (IF c \in ready THEN 1 ELSE 0)
          + (IF call.pc \in {"enable_interrupts", "begin", "panicked"}
                /\ call.chan = c THEN 1 ELSE 0) = 1

C6_Witness ==
    /\ xfer["i2c"].state = "Busy" /\ xfer["uart"].state = "Busy"
    /\ ready = {} /\ call.pc = "idle"

\* C7: the completion callback of a Transfer is invoked exactly once: never
\* twice, and once the hardware has finished and the interrupt was served it
\* has been invoked, with Error after a hardware error and Success after a
\* normal finish; a Transfer is consumed with exactly one invocation.
C7_CallbackExactlyOnce ==
    /\ [](\A p \in Periph :
            /\ Len(xfer[p].waker) <= 1
            /\ (xfer[p].state = "Busy" /\ Finished(xfer[p].chan)
                  /\ ~dmac[xfer[p].chan].intflag) =>
                 xfer[p].waker =
                    <<IF dmac[xfer[p].chan].state = "error"
                         THEN "Error" ELSE "Success">>)
    /\ [][\A p \in Periph : Consumed(p) => Len(xfer[p].waker) = 1]_vars

C7_Witness ==
    /\ xfer["uart"].waker = <<"Error">>
    /\ xfer["i2c"].waker = <<"Success">>

\* C8: a Transfer is consumed by the caller only after the hardware finished,
\* and that gives back the channel, Ready, with the peripheral and the buffer
\* the entry point consumed; until then the caller has neither the peripheral
\* nor the buffer nor the channel.
C8_TransferGivesBackAll ==
    /\ [](/\ \A p \in Periph : xfer[p].state = "Busy" =>
                /\ p \notin owned
                /\ xfer[p].buf \notin bufs
                /\ xfer[p].chan \notin ready
          /\ call.pc # "idle" =>
                /\ (IF call.fn \in I2cFns THEN "i2c" ELSE "uart") \notin owned
                /\ call.buf \notin bufs)
    /\ [][\A p \in Periph : Consumed(p) =>
            /\ Finished(xfer[p].chan)
            /\ xfer[p].chan \in ready' /\ dmac'[xfer[p].chan].state = "off"
            /\ p \in owned'
            /\ xfer[p].buf \in bufs']_vars

C8_Witness ==
    /\ owned = Periph /\ bufs = Buf /\ ready = Chan
    /\ \E c \in Chan : dmac[c].tcmpl


\* A call of an engine function is in flight.
InEngine == call.fn \in EngineFns /\ call.pc = "in_flight"

\* C12: every armed transfer, whichever entry point or engine function armed
\* it, carries the trigger action of the chip family: Burst on d5x, Beat on
\* d11 and d21.
C12_TriggerActionByFamily ==
    \A c \in Chan :
        dmac[c].state # "off" =>
            /\ chip = "d5x" => dmac[c].act = "Burst"
            /\ chip \in {"d11", "d21"} => dmac[c].act = "Beat"

C12_Witness ==
    /\ chip = "d5x" /\ InEngine /\ call.fn = "write_dma"
    /\ dmac[call.chan].state = "armed" /\ dmac[call.chan].act = "Burst"

\* C13: in a transfer armed by read_dma_linked / write_dma_linked with a next
\* descriptor, the completion flag is down while the chain runs and rises
\* only as the second leg finishes; once the chain has stopped it does not
\* rise again.
C13_OneInterruptPerChain ==
    [][ (InEngine /\ call.next) =>
          LET c == call.chan IN
          /\ dmac[c].state = "armed" => ~dmac[c].intflag
          /\ (~dmac[c].intflag /\ dmac'[c].intflag) =>
                \/ dmac[c].leg = 2 /\ dmac'[c].state = "done"
                \/ dmac'[c].state = "error"
          /\ (dmac[c].state \in {"done", "error"} /\ call' = call) =>
                (dmac'[c].state = dmac[c].state /\ (dmac'[c].intflag => dmac[c].intflag)) ]_vars

\* The chain has completed and its one interrupt has been taken.
C13_Witness ==
    /\ InEngine /\ call.next /\ call.fn = "read_dma_linked"
    /\ dmac[call.chan].state = "done" /\ dmac[call.chan].leg = 2
    /\ dmac[call.chan].tcmpl /\ ~dmac[call.chan].intflag

\* C14: the read functions arm register adapter -> buffer on the RX trigger,
\* the write functions buffer -> register adapter on the TX trigger; the
\* linked functions pass their next descriptor through, read_dma and
\* write_dma pass none.
C14_EngineDirection ==
    InEngine =>
        LET d == dmac[call.chan] IN
        /\ call.fn \in {"read_dma", "read_dma_linked"} =>
              d.src = "sercom_ptr" /\ d.dst = "buf" /\ d.trig = "RX"
        /\ call.fn \in {"write_dma", "write_dma_linked"} =>
              d.src = "buf" /\ d.dst = "sercom_ptr" /\ d.trig = "TX"
        /\ d.link = call.next
        /\ call.fn \in {"read_dma", "write_dma"} => ~d.link

C14_Witness ==
    /\ InEngine /\ call.fn = "write_dma_linked" /\ call.next
    /\ dmac[call.chan].src = "buf" /\ dmac[call.chan].dst = "sercom_ptr"
    /\ dmac[call.chan].trig = "TX" /\ dmac[call.chan].link


\* C15: an entry point begins its transfer on a channel whose
\* transfer-complete interrupt is already enabled, and a channel that is Busy
\* in a Transfer of an entry point has it enabled.
C15_TcmplEnabledBeforeBegin ==
    /\ [](\A p \in AllPeriph :
            xfer[p].state = "Busy" => dmac[xfer[p].chan].tcmpl)
    /\ [][\A c \in Chan :
            (dmac[c].state = "off" /\ dmac'[c].via = "Transfer::begin") =>
                (dmac[c].tcmpl /\ dmac'[c].tcmpl)]_vars

C15_Witness ==
    /\ xfer["spi"].state = "Busy"
    /\ dmac[xfer["spi"].chan].state = "armed"
    /\ dmac[xfer["spi"].chan].tcmpl

\* C16: a channel that is Busy in a Transfer of an entry point was armed
\* through read_dma(_linked) / write_dma(_linked).
C16_EntryPointsArmThroughEngine ==
    \A p \in AllPeriph :
        xfer[p].state = "Busy" =>
            dmac[xfer[p].chan].via \in {"read_dma_linked", "write_dma_linked"}


\* C17: when receive_with_dma starts the I2C, it starts a read, with the
\* caller's address, on a transfer from the peripheral to the caller's buffer
\* begun on the RX trigger; send_with_dma starts a write, with the caller's
\* address, on a transfer from the caller's buffer to the peripheral begun on
\* the TX trigger.
C17_I2cDirection ==
    [][ (i2c.cmd = "none" /\ i2c'.cmd # "none") =>
          LET t == xfer["i2c"] IN
          /\ call.fn \in I2cFns
          /\ i2c'.address = call.address
          /\ t.state = "Busy" /\ t.buf = call.buf
          /\ call.fn = "i2c_receive_with_dma" =>
                /\ i2c'.cmd = "read"
                /\ t.src = "periph" /\ t.dst = "buf"
                /\ dmac[t.chan].trig = "RX"
          /\ call.fn = "i2c_send_with_dma" =>
                /\ i2c'.cmd = "write"
                /\ t.src = "buf" /\ t.dst = "periph"
                /\ dmac[t.chan].trig = "TX" ]_vars

C17_Witness ==
    /\ i2c.cmd = "read" /\ i2c.address \in Addr
    /\ xfer["i2c"].state = "Busy"
    /\ xfer["i2c"].src = "periph" /\ xfer["i2c"].dst = "buf"
    /\ dmac[xfer["i2c"].chan].trig = "RX"

\* C18: the length programmed into the I2C peripheral, the buffer length
\* narrowed to 8 bits, is the buffer length the transfer was armed with.
C18_ProgrammedLength ==
    i2c.cmd # "none" =>
        /\ xfer["i2c"].state = "Busy"
        /\ i2c.len = xfer["i2c"].len

C18_Witness ==
    /\ i2c.cmd = "write"
    /\ i2c.len = I2cMaxLen /\ xfer["i2c"].len = I2cMaxLen


\* C19: a UART or SPI entry point called with any buffer length, 0 and
\* lengths above 255 included, and in any bus state, never panics: it enables
\* the interrupt, begins the transfer over the whole buffer and returns the
\* Transfer; it has no start step and writes nothing to a peripheral.
C19_UartSpiNoPrecondition ==
    /\ [](call.fn \in UartFns \cup SpiFns =>
            call.pc \in {"enable_interrupts", "begin"})
    /\ [][ (call.fn \in UartFns \cup SpiFns /\ call.pc = "begin" /\ call' # call) =>
             LET p == IF call.fn \in UartFns THEN "uart" ELSE "spi" IN
             /\ call' = NoCall
             /\ xfer'[p].state = "Busy" /\ xfer'[p].chan = call.chan
             /\ xfer'[p].buf = call.buf /\ xfer'[p].len = call.len
             /\ dmac'[call.chan].state = "armed" /\ dmac[call.chan].tcmpl
             /\ i2c' = i2c /\ busIdle' = busIdle /\ ret' = ret ]_vars

C19_Witness ==
    /\ xfer["uart"].state = "Busy" /\ xfer["uart"].len > I2cMaxLen
    /\ dmac[xfer["uart"].chan].state = "armed"
    /\ ~busIdle

\* C20: an engine function arms the channel and nothing else: the caller
\* keeps the Ready handle, the peripheral and the buffer, the interrupt
\* enables of every channel stay as they were, and no Transfer with a
\* callback comes to exist.
C20_EngineOnlyArms ==
    /\ [](InEngine =>
            /\ call.chan \in ready /\ call.buf \in bufs
            /\ dmac[call.chan].periph \in owned
            /\ \A p \in AllPeriph : xfer[p].state = "Busy" => xfer[p].chan # call.chan)
    /\ [][ (call.pc = "idle" /\ call'.fn \in EngineFns) =>
             /\ ready' = ready /\ owned' = owned /\ bufs' = bufs /\ xfer' = xfer
             /\ \A c \in Chan : dmac'[c].tcmpl = dmac[c].tcmpl
             /\ dmac[call'.chan].state = "off"
             /\ dmac'[call'.chan].state = "armed" ]_vars

C20_Witness ==
    /\ InEngine /\ call.fn = "read_dma"
    /\ call.chan \in ready /\ call.buf \in bufs
    /\ dmac[call.chan].state = "armed" /\ ~dmac[call.chan].tcmpl


\* ------------------------------------------------------ SharedSliceBuffer

\* from_slice_unchecked: ptrs = slice.as_ptr_range(), a range of *mut T, so
\* its end lies n * size_of::<T>() bytes after its start.
from_slice_unchecked ==
    /\ ssb = NoSsb
    /\ ssb' = [start |-> slice.start, end |-> slice.start + slice.n * slice.width]
    /\ obs' = NoObs
    /\ UNCHANGED <<slice, reg, mainVars>>

\* fn buffer_len(&self): self.ptrs.end as usize - self.ptrs.start as usize
buffer_len(s) == s.end - s.start

\* fn incrementing(&self): self.buffer_len() > 1
incrementing(s) == buffer_len(s) > 1

\* Faulty variant: the start of the region, whatever the increment policy.
dma_ptr_AlwaysStart(s) == s.start

\* fn dma_ptr(&mut self)
dma_ptr(s) == IF incrementing(s) THEN s.end ELSE s.start

Built == ssb # NoSsb

CallBufferLen ==
    /\ Built
    /\ obs' = [op |-> "buffer_len", val |-> buffer_len(ssb), flag |-> FALSE]
    /\ UNCHANGED <<ssb, slice, reg, mainVars>>

CallIncrementing ==
    /\ Built
    /\ obs' = [op |-> "incrementing", val |-> 0, flag |-> incrementing(ssb)]
    /\ UNCHANGED <<ssb, slice, reg, mainVars>>

CallDmaPtr ==
    /\ Built
    /\ obs' = [op |-> "dma_ptr", val |-> dma_ptr(ssb), flag |-> FALSE]
    /\ UNCHANGED <<ssb, slice, reg, mainVars>>

\* Any slice &[T]: aligned, non-null start, 0..MaxBeats elements.
Slices ==
    { [start |-> k * w, n |-> n, width |-> w] :
        k \in 1 .. MaxStart, n \in 0 .. MaxBeats, w \in BeatWidths }

SliceInit ==
    /\ MainInit
    /\ slice \in Slices
    /\ ssb = NoSsb
    /\ obs = NoObs
    /\ reg = NoReg

SliceNext ==
    \/ from_slice_unchecked
    \/ CallBufferLen
    \/ CallIncrementing
    \/ CallDmaPtr

SliceSpec == SliceInit /\ [][SliceNext]_vars

\* C9: buffer_len() of a SharedSliceBuffer over N beats is N, for every Beat
\* width.
C9_BufferLenIsBeatCount ==
    obs.op = "buffer_len" => obs.val = slice.n

\* C10: incrementing() of a SharedSliceBuffer over N beats is true exactly
\* when N > 1, for every Beat width.
C10_IncrementingIffMoreThanOneBeat ==
    obs.op = "incrementing" => (obs.flag <=> slice.n > 1)

\* C21: dma_ptr() of a SharedSliceBuffer is the end of the slice's address
\* range, one past its last beat, when incrementing() is true, and the start
\* of the range otherwise; the range is fixed once the buffer is built, so
\* every call reports the same address.
C21_DmaPtrOfSharedSlice ==
    /\ [](obs.op = "dma_ptr" =>
            obs.val = IF incrementing(ssb)
                         THEN slice.start + slice.n * slice.width
                         ELSE slice.start)
    /\ [][ /\ slice' = slice
           /\ Built => ssb' = ssb
           /\ (obs.op = "dma_ptr" /\ obs'.op = "dma_ptr") => obs'.val = obs.val ]_vars

C21_Witness ==
    /\ obs.op = "dma_ptr" /\ incrementing(ssb)
    /\ slice.n > 1 /\ slice.width > 1
    /\ obs.val = slice.start + slice.n * slice.width


\* -------------------------------------------------- fixed-register buffers

Sercoms == {"SERCOM0", "SERCOM1", "SERCOM2"}

\* data_ptr(): the address of the DATA register of the SERCOM instance.
data_ptr(r) ==
    CASE r.sercom = "SERCOM0" -> 40
      [] r.sercom = "SERCOM1" -> 1064
      [] r.sercom = "SERCOM2" -> 2088

RegKinds == {"SercomPtr", "I2c", "Uart", "Spi"}

\* A SercomPtr<T>(ptr) is built over the DATA register of its SERCOM; the
\* peripherals carry their SERCOM. T is the Beat / Word type.
FixedBuffers ==
    { [kind |-> k, sercom |-> s, ptr |-> data_ptr([sercom |-> s]), width |-> w] :
        k \in RegKinds, s \in Sercoms, w \in BeatWidths }

\* Faulty variant: the length in bytes of the register.
FixedBufferLen_Bytes(r) == r.width

\* fn buffer_len(&self) of SercomPtr<T>, I2c<C>, Uart<C, D>, Spi<C, A>
FixedBufferLen(r) ==
    CASE r.kind = "SercomPtr" -> 1
      [] r.kind = "I2c" -> 1
      [] r.kind = "Uart" -> 1
      [] r.kind = "Spi" -> 1

\* fn incrementing(&self) of SercomPtr<T>, I2c<C>, Uart<C, D>, Spi<C, A>
FixedIncrementing(r) ==
    CASE r.kind = "SercomPtr" -> FALSE
      [] r.kind = "I2c" -> FALSE
      [] r.kind = "Uart" -> FALSE
      [] r.kind = "Spi" -> FALSE

\* fn dma_ptr(&mut self): self.0 of a SercomPtr, self.data_ptr() of a
\* peripheral
FixedDmaPtr(r) ==
    CASE r.kind = "SercomPtr" -> r.ptr
      [] r.kind = "I2c" -> data_ptr(r)
      [] r.kind = "Uart" -> data_ptr(r)
      [] r.kind = "Spi" -> data_ptr(r)

CallFixedBufferLen ==
    /\ obs' = [op |-> "fixed_buffer_len", val |-> FixedBufferLen(reg), flag |-> FALSE]
    /\ UNCHANGED <<ssb, slice, reg, mainVars>>

CallFixedIncrementing ==
    /\ obs' = [op |-> "fixed_incrementing", val |-> 0, flag |-> FixedIncrementing(reg)]
    /\ UNCHANGED <<ssb, slice, reg, mainVars>>

CallFixedDmaPtr ==
    /\ obs' = [op |-> "fixed_dma_ptr", val |-> FixedDmaPtr(reg), flag |-> FALSE]
    /\ UNCHANGED <<ssb, slice, reg, mainVars>>

FixedInit ==
    /\ MainInit
    /\ ssb = NoSsb /\ slice = NoSlice /\ obs = NoObs
    /\ reg \in FixedBuffers

FixedNext ==
    \/ CallFixedBufferLen
    \/ CallFixedIncrementing
    \/ CallFixedDmaPtr

FixedSpec == FixedInit /\ [][FixedNext]_vars

\* C11: every fixed-register buffer (SercomPtr, I2c, Uart, Spi) reports
\* buffer_len() = 1 and incrementing() = false whatever the Beat width, and
\* dma_ptr() is the DATA register address of its SERCOM.
C11_FixedRegisterBuffer ==
    /\ obs.op = "fixed_buffer_len" => obs.val = 1
    /\ obs.op = "fixed_incrementing" => ~obs.flag
    /\ obs.op = "fixed_dma_ptr" => obs.val = data_ptr(reg)

C11_Witness ==
    /\ obs.op = "fixed_buffer_len" /\ obs.val = 1
    /\ reg.kind = "Spi" /\ reg.width = 4

====
